---- MODULE Spec2Model ----
(***************************************************************************)
(* Model of gzip_parser.c: main() reads the 12-byte struct gzip_header,    *)
(* checks the magic, reads the optional fields selected by the flag byte   *)
(* (extra field, filename, comment, header checksum) and finally the       *)
(* 8-byte trailer found by a seek from the end of the file.                *)
(*                                                                         *)
(* The file is a sequence of bytes, the cursor `pos` is the offset of the  *)
(* file description.  Every read(2)/lseek(2) call is one action; each      *)
(* iteration of the two do-while loops is one action.  The printf calls    *)
(* of the optional fields and of the trailer are kept in `report`; the     *)
(* printf calls of lines 76-97 only print fields of the fixed header and   *)
(* change nothing the later stages depend on.                              *)
(***************************************************************************)
EXTENDS Integers, Sequences, FiniteSets, TLC

VARIABLES
    file,       \* the bytes of the file named by argv[1]
    pc,         \* position of main()
    pos,        \* offset of the open file description
    header,     \* the 12 bytes of struct gzip_header
    bytes_read, \* unsigned int bytes_read
    c,          \* char c of the loop being executed (-1: not yet written)
    len,        \* len of the loop being executed
    filename,   \* char filename[128]: filename[i + 1] is the byte written at index i
    comment,    \* char comment[BUFSIZ]: comment[i + 1] is the byte written at index i
    report,     \* field -> value printed for it
    order,      \* the optional fields in the order their first read was issued
    span,       \* field -> <<offset of its first read, offset after its last read>>
    ops,        \* number of read/lseek calls issued
    closes,     \* number of close(fd) calls issued
    outcome,    \* "none" while running, then how main() ended
    faults      \* the calls that returned -1, in the order they were issued

vars == <<file, pc, pos, header, bytes_read, c, len, filename, comment,
          report, order, span, ops, closes, outcome, faults>>

----------------------------------------------------------------------------
(* Bounds of the explored inputs *)

MaxBody == 6        \* small inputs: at most this many bytes after offset 10
MaxOver == 1        \* long inputs: runs up to this many bytes beyond a buffer size
MaxFaults == 1      \* at most this many calls return -1 in one run
MaxFaultLen == 16   \* calls return -1 only on inputs of at most this many bytes

(* Program constants *)

FTEXT == 0
FHCRC == 1
FEXTRA == 2
FNAME == 3
FCOMMENT == 4
bit == 1
HeaderSize == 12     \* sizeof(struct gzip_header)
NameSize == 128      \* char filename[128]
BUFSIZ == 8192       \* <stdio.h> of glibc
TrailerOffsetShort == 0 - 4
TrailerOffset == 0 - 8
RetreatOffset == 0 - 2
Half == 65536

ByteVals == {0, 1}
Uninit == 0 - 1

----------------------------------------------------------------------------
(* Helpers *)

Min(a, b) == IF a < b THEN a ELSE b
Max(a, b) == IF a > b THEN a ELSE b

Put(m, k, v) == [x \in (DOMAIN m) \cup {k} |-> IF x = k THEN v ELSE m[x]]

Empty == [x \in {} |-> 0]

RECURSIVE BitAnd(_, _)
BitAnd(a, b) ==
    IF a = 0 \/ b = 0 THEN 0
    ELSE (a % 2) * (b % 2) + 2 * BitAnd(a \div 2, b \div 2)

RECURSIVE Shl(_, _)
Shl(a, n) == IF n = 0 THEN a ELSE Shl(2 * a, n - 1)

HasFlagAnyHigher(flag, n) == flag \div Shl(bit, n) # 0
HasFlag(flag, n) == BitAnd(flag, Shl(bit, n)) # 0

\* conversion of an int to unsigned int (32 bits), kept as two 16-bit halves
ToUint(ret) == [hi |-> (ret \div Half) % Half, lo |-> ret % Half]

\* a < b on unsigned int
ULess(a, b) == a.hi < b.hi \/ (a.hi = b.hi /\ a.lo < b.lo)

LE(bytes) ==
    LET RECURSIVE Dec(_)
        Dec(i) == IF i > Len(bytes) THEN 0 ELSE bytes[i] + 256 * Dec(i + 1)
    IN Dec(1)

Id1(h) == h[1]
Id2(h) == h[2]
Flag(h) == h[4]
Xlen(h) == LE(SubSeq(h, 11, 12))

ValidMagicId1Only(h) == Id1(h) = 31
ValidMagic(h) == Id1(h) = 31 /\ Id2(h) = 139

----------------------------------------------------------------------------
(* The inputs explored *)

Image(id1, id2, flag, body) == <<id1, id2, 8, flag, 0, 0, 0, 0, 0, 3>> \o body

Run(n) == [i \in 1..n |-> 1]
Zeros(n) == [i \in 1..n |-> 0]
Alt(n) == [i \in 1..n |-> i % 2]

Bodies == UNION {[1..n -> ByteVals] : n \in 2..MaxBody}

SmallInputs == {Image(31, 139, 2 * h, b) : h \in 0..15, b \in Bodies}

AllFlagInputs ==
    {Image(31, 139, f, b) : f \in 0..255, b \in {Zeros(MaxBody), Alt(MaxBody)}}

BadMagicInputs ==
    {Image(m[1], m[2], f, b) : m \in {<<31, 0>>, <<0, 139>>, <<0, 0>>},
                               f \in {0, 31},
                               b \in [1..2 -> ByteVals] \cup {Zeros(MaxBody)}}

ShortInputs ==
    {SubSeq(Image(m[1], m[2], f, <<0, 0>>), 1, n) :
        m \in {<<31, 139>>, <<0, 0>>}, f \in {0, 8, 31}, n \in 0..(HeaderSize - 1)}

LongNameInputs ==
    {Image(31, 139, f, Run(NameSize - 2 + d) \o <<0, 1, 0, 1, 1>>) :
        f \in {8, 24, 26}, d \in 0..(MaxOver + 1)}

LongCommentInputs ==
    {Image(31, 139, f, Run(BUFSIZ + 1 + d) \o <<0, 1, 1>>) :
        f \in {16}, d \in 0..MaxOver}

Inputs ==
    SmallInputs \cup AllFlagInputs \cup BadMagicInputs \cup ShortInputs
        \cup LongNameInputs \cup LongCommentInputs

----------------------------------------------------------------------------
(* read(2), lseek(2) and close(2) on the file *)

\* whether the next call may return -1
Errs == IF Len(file) <= MaxFaultLen /\ Len(faults) < MaxFaults
        THEN {FALSE, TRUE} ELSE {FALSE}

\* read(fd, buf, want) at offset p: the return value and the bytes delivered
SysRead(p, want, err) ==
    IF err THEN [ret |-> 0 - 1, data |-> <<>>]
    ELSE LET n == Max(0, Min(want, Len(file) - p))
         IN [ret |-> n, data |-> SubSeq(file, p + 1, p + n)]

\* lseek(fd, off, whence) with base the offset whence stands for: the return value
SysLseek(off, base, err) ==
    IF err \/ base + off < 0 THEN 0 - 1 ELSE base + off

Advance(p, ret) == IF ret < 0 THEN p ELSE p + ret

Failed(f, op, err) == IF err THEN Append(f, op) ELSE f

\* the value an uninitialised object holds when it was never written
Garbage(err) == IF err THEN ByteVals ELSE {0}

\* printf("%s", buf): the bytes before the first zero byte
CStr(buf) ==
    LET z == {i \in DOMAIN buf : buf[i] = 0}
        n == CHOOSE i \in z : \A j \in z : i <= j
    IN [i \in 1..(n - 1) |-> buf[i]]

\* buf[l] = ch where the indices 0..l-1 of buf are the ones written so far
Store(buf, l, ch) == Append(buf, ch)

\* buf[size - 1] = 0 after the loop left l bytes in buf
Terminate(buf, l, size) ==
    IF l >= size THEN [buf EXCEPT ![size] = 0] ELSE Put(buf, size, 0)

LoopContinuesInclusive(ch, l, size) == ch # 0 /\ l <= size
LoopContinues(ch, l, size) == ch # 0 /\ l < size

TooFewEofOnly(ret, want) == ret = 0
TooFew(ret, want) == ULess(ToUint(ret), ToUint(want))

Touch(sp, field, from, to) ==
    Put(sp, field, <<IF field \in DOMAIN sp THEN sp[field][1] ELSE from, to>>)

Seen(ord, field) ==
    IF \E i \in 1..Len(ord) : ord[i] = field THEN ord ELSE Append(ord, field)

----------------------------------------------------------------------------
Init ==
    /\ file \in Inputs
    /\ pc = "start"
    /\ pos = 0
    /\ header = Zeros(HeaderSize)
    /\ bytes_read = ToUint(0)
    /\ c = Uninit
    /\ len = 0
    /\ filename = <<>>
    /\ comment = <<>>
    /\ report = Empty
    /\ order = <<>>
    /\ span = Empty
    /\ ops = 0
    /\ closes = 0
    /\ outcome = "none"
    /\ faults = <<>>

Abort(kind) ==
    /\ outcome' = kind
    /\ closes' = closes + 1
    /\ pc' = "done"

\* lines 62-69: memset, open, read of the struct, short-read test
ReadHeader ==
    /\ pc = "start"
    /\ \E err \in Errs :
          LET r == SysRead(pos, HeaderSize, err)
          IN /\ header' = r.data \o Zeros(HeaderSize - Len(r.data))
             /\ bytes_read' = ToUint(r.ret)
             /\ pos' = Advance(pos, r.ret)
             /\ ops' = ops + 1
             /\ faults' = Failed(faults, "read_header", err)
             /\ IF TooFew(r.ret, HeaderSize)
                THEN Abort("TruncatedInput")
                ELSE pc' = "magic" /\ UNCHANGED <<outcome, closes>>
    /\ UNCHANGED <<file, c, len, filename, comment, report, order, span>>

\* lines 71-75: the magic test; the else branch returns without close(fd)
CheckMagic ==
    /\ pc = "magic"
    /\ IF ValidMagic(header)
       THEN pc' = "extra" /\ UNCHANGED outcome
       ELSE pc' = "done" /\ outcome' = "InvalidMagic"
    /\ UNCHANGED <<file, pos, header, bytes_read, c, len, filename, comment,
                   report, order, span, ops, closes, faults>>

\* lines 99-110: the extra field
ReadExtra ==
    /\ pc = "extra"
    /\ IF HasFlag(Flag(header), FEXTRA)
       THEN \E err \in Errs : \E g \in Garbage(err) :
              LET r == SysRead(pos, Xlen(header), err)
              IN /\ bytes_read' = ToUint(r.ret)
                 /\ pos' = Advance(pos, r.ret)
                 /\ ops' = ops + 1
                 /\ faults' = Failed(faults, "read_extra", err)
                 /\ order' = Seen(order, "extra")
                 /\ span' = Touch(span, "extra", pos, pos')
                 /\ IF TooFew(r.ret, Xlen(header))
                    THEN Abort("TruncatedInput") /\ UNCHANGED report
                    ELSE /\ report' = Put(report, "extra",
                                IF err THEN [i \in 1..Xlen(header) |-> g] ELSE r.data)
                         /\ pc' = "name"
                         /\ UNCHANGED <<outcome, closes>>
       ELSE /\ pc' = "name"
            /\ UNCHANGED <<pos, bytes_read, report, order, span, ops, closes,
                           outcome, faults>>
    /\ UNCHANGED <<file, header, c, len, filename, comment>>

\* lines 117-118: where the cursor is put before the filename is read
NoRetreat(flag, p, err) == p
Retreat(flag, p, err) ==
    IF ~HasFlag(flag, FEXTRA)
    THEN LET r == SysLseek(RetreatOffset, p, err) IN IF r < 0 THEN p ELSE r
    ELSE p

\* lines 112-118: the FNAME test, the locals, the seek back over xlen
EnterName ==
    /\ pc = "name"
    /\ IF HasFlag(Flag(header), FNAME)
       THEN /\ IF ~HasFlag(Flag(header), FEXTRA)
               THEN \E err \in Errs :
                      /\ pos' = Retreat(Flag(header), pos, err)
                      /\ ops' = ops + 1
                      /\ faults' = Failed(faults, "lseek_cur", err)
               ELSE UNCHANGED <<pos, ops, faults>>
            /\ c' = Uninit
            /\ len' = 0
            /\ filename' = <<>>
            /\ pc' = "name_loop"
       ELSE /\ pc' = "comment"
            /\ UNCHANGED <<pos, ops, faults, c, len, filename>>
    /\ UNCHANGED <<file, header, bytes_read, comment, report, order, span,
                   closes, outcome>>

\* lines 120-130: one iteration of the filename loop, and what follows its exit
ReadNameByte ==
    /\ pc = "name_loop"
    /\ \E err \in Errs : \E g \in (IF c = Uninit THEN Garbage(err) ELSE {0}) :
          LET r == SysRead(pos, 1, err)
              ch == IF r.ret = 1 THEN r.data[1] ELSE IF c = Uninit THEN g ELSE c
              l == (len + 1) % 256
              stored == Store(filename, len, ch)
          IN /\ bytes_read' = ToUint(r.ret)
             /\ pos' = Advance(pos, r.ret)
             /\ ops' = ops + 1
             /\ faults' = Failed(faults, "read_name", err)
             /\ order' = Seen(order, "filename")
             /\ span' = Touch(span, "filename", pos, pos')
             /\ IF TooFew(r.ret, 1)
                THEN Abort("TruncatedInput") /\ UNCHANGED <<c, len, filename, report>>
                ELSE /\ c' = ch
                     /\ len' = l
                     /\ UNCHANGED <<outcome, closes>>
                     /\ IF LoopContinues(ch, l, NameSize)
                        THEN filename' = stored /\ UNCHANGED <<pc, report>>
                        ELSE /\ filename' = Terminate(stored, l, NameSize)
                             /\ report' = Put(report, "filename", CStr(filename'))
                             /\ pc' = "comment"
    /\ UNCHANGED <<file, header, comment>>

\* lines 133-136: the FCOMMENT test and the locals
EnterComment ==
    /\ pc = "comment"
    /\ IF HasFlag(Flag(header), FCOMMENT)
       THEN c' = Uninit /\ len' = 0 /\ comment' = <<>> /\ pc' = "comment_loop"
       ELSE pc' = "hcrc" /\ UNCHANGED <<c, len, comment>>
    /\ UNCHANGED <<file, pos, header, bytes_read, filename, report, order, span,
                   ops, closes, outcome, faults>>

\* lines 138-148: one iteration of the comment loop, and what follows its exit
ReadCommentByte ==
    /\ pc = "comment_loop"
    /\ \E err \in Errs : \E g \in (IF c = Uninit THEN Garbage(err) ELSE {0}) :
          LET r == SysRead(pos, 1, err)
              ch == IF r.ret = 1 THEN r.data[1] ELSE IF c = Uninit THEN g ELSE c
              l == len + 1
              stored == Store(comment, len, ch)
          IN /\ bytes_read' = ToUint(r.ret)
             /\ pos' = Advance(pos, r.ret)
             /\ ops' = ops + 1
             /\ faults' = Failed(faults, "read_comment", err)
             /\ order' = Seen(order, "comment")
             /\ span' = Touch(span, "comment", pos, pos')
             /\ IF TooFew(r.ret, 1)
                THEN Abort("TruncatedInput") /\ UNCHANGED <<c, len, comment, report>>
                ELSE /\ c' = ch
                     /\ len' = l
                     /\ UNCHANGED <<outcome, closes>>
                     /\ IF LoopContinues(ch, l, BUFSIZ)
                        THEN comment' = stored /\ UNCHANGED <<pc, report>>
                        ELSE /\ comment' = Terminate(stored, l, BUFSIZ)
                             /\ report' = Put(report, "comment", CStr(comment'))
                             /\ pc' = "hcrc"
    /\ UNCHANGED <<file, header, filename>>

\* lines 151-160: the header checksum
ReadHcrc ==
    /\ pc = "hcrc"
    /\ IF HasFlag(Flag(header), FHCRC)
       THEN \E err \in Errs : \E g \in Garbage(err) :
              LET r == SysRead(pos, 2, err)
              IN /\ bytes_read' = ToUint(r.ret)
                 /\ pos' = Advance(pos, r.ret)
                 /\ ops' = ops + 1
                 /\ faults' = Failed(faults, "read_hcrc", err)
                 /\ order' = Seen(order, "hcrc")
                 /\ span' = Touch(span, "hcrc", pos, pos')
                 /\ IF TooFew(r.ret, 2)
                    THEN Abort("TruncatedInput") /\ UNCHANGED report
                    ELSE /\ report' = Put(report, "hcrc", IF err THEN g ELSE LE(r.data))
                         /\ pc' = "trailer"
                         /\ UNCHANGED <<outcome, closes>>
       ELSE /\ pc' = "trailer"
            /\ UNCHANGED <<pos, bytes_read, report, order, span, ops, closes,
                           outcome, faults>>
    /\ UNCHANGED <<file, header, c, len, filename, comment>>

\* lines 166-170: the seek to the last 8 bytes
SeekTrailer ==
    /\ pc = "trailer"
    /\ \E err \in Errs :
          LET r == SysLseek(TrailerOffset, Len(file), err)
          IN /\ ops' = ops + 1
             /\ faults' = Failed(faults, "lseek_end", err)
             /\ IF r = 0 - 1
                THEN Abort("SeekOutOfRange") /\ UNCHANGED pos
                ELSE pos' = r /\ pc' = "crc" /\ UNCHANGED <<outcome, closes>>
    /\ UNCHANGED <<file, header, bytes_read, c, len, filename, comment, report,
                   order, span>>

\* lines 172-178: the checksum of the data
ReadCrc ==
    /\ pc = "crc"
    /\ \E err \in Errs : \E g \in Garbage(err) :
          LET r == SysRead(pos, 4, err)
          IN /\ bytes_read' = ToUint(r.ret)
             /\ pos' = Advance(pos, r.ret)
             /\ ops' = ops + 1
             /\ faults' = Failed(faults, "read_crc", err)
             /\ IF TooFew(r.ret, 4)
                THEN Abort("TruncatedInput") /\ UNCHANGED report
                ELSE /\ report' = Put(report, "crc32", IF err THEN g ELSE LE(r.data))
                     /\ pc' = "isize"
                     /\ UNCHANGED <<outcome, closes>>
    /\ UNCHANGED <<file, header, c, len, filename, comment, order, span>>

\* lines 180-189: the size of the data, close and the end of main
ReadIsize ==
    /\ pc = "isize"
    /\ \E err \in Errs : \E g \in Garbage(err) :
          LET r == SysRead(pos, 4, err)
          IN /\ bytes_read' = ToUint(r.ret)
             /\ pos' = Advance(pos, r.ret)
             /\ ops' = ops + 1
             /\ faults' = Failed(faults, "read_isize", err)
             /\ IF TooFew(r.ret, 4)
                THEN Abort("TruncatedInput") /\ UNCHANGED report
                ELSE /\ report' = Put(report, "isize", IF err THEN g ELSE LE(r.data))
                     /\ Abort("ok")
    /\ UNCHANGED <<file, header, c, len, filename, comment, order, span>>

Next ==
    \/ ReadHeader
    \/ CheckMagic
    \/ ReadExtra
    \/ EnterName
    \/ ReadNameByte
    \/ EnterComment
    \/ ReadCommentByte
    \/ ReadHcrc
    \/ SeekTrailer
    \/ ReadCrc
    \/ ReadIsize

Spec == Init /\ [][Next]_vars

----------------------------------------------------------------------------
(* Properties *)

Bit(f, n) == (f \div (2 ^ n)) % 2 = 1

Wanted(field, f) ==
    CASE field = "extra" -> Bit(f, 2)
      [] field = "filename" -> Bit(f, 3)
      [] field = "comment" -> Bit(f, 4)
      [] field = "hcrc" -> Bit(f, 1)

Expected(f) ==
    SelectSeq(<<"extra", "filename", "comment", "hcrc">>, LAMBDA x : Wanted(x, f))

IsPrefix(a, b) == Len(a) <= Len(b) /\ a = SubSeq(b, 1, Len(a))

FirstZeroFrom(from) ==
    LET z == {i \in (from + 1)..Len(file) : file[i] = 0}
    IN IF z = {} THEN 0 ELSE CHOOSE i \in z : \A j \in z : i <= j

Faulted(op) == \E i \in 1..Len(faults) : faults[i] = op

Dec32(b) == b[1] + 256 * b[2] + 65536 * b[3] + 16777216 * b[4]

\* C1: the optional fields whose read is attempted are those whose flag bit
\* (FEXTRA 2, FNAME 3, FCOMMENT 4, FHCRC 1) is set, in the order extra,
\* filename, comment, checksum: the attempts made so far are always a prefix
\* of that list, and a parse whose reads all succeed attempted the whole list.
\* FTEXT and the bits 5-7 select nothing, and an error comes only from the end
\* of the input, from the magic or from a failing seek, never from a flag bit.
C1_FieldsFollowFlags ==
    /\ IsPrefix(order, Expected(Flag(header)))
    /\ outcome = "ok" => order = Expected(Flag(header))
    /\ outcome = "TruncatedInput" => pos = Len(file)
    /\ outcome = "InvalidMagic" => SubSeq(header, 1, 2) # <<31, 139>>
    /\ outcome = "SeekOutOfRange" => Faulted("lseek_end")

C1_Witness ==
    /\ outcome = "ok"
    /\ faults = <<>>
    /\ Flag(header) = 255
    /\ order = <<"extra", "filename", "comment", "hcrc">>

\* C2: when FEXTRA is not set, the first optional field that is read starts
\* at offset 10 (the cursor was moved back over the two bytes read as xlen),
\* whichever of FNAME, FCOMMENT and FHCRC are set.
C2_RetreatWheneverNoExtra ==
    (order # <<>> /\ ~Bit(Flag(header), 2) /\ faults = <<>>)
        => span[order[1]][1] = HeaderSize - 2

\* C3: with FEXTRA unset and FNAME set, a name of n < 127 non-zero bytes at
\* offset 10 followed by a zero byte is reported as exactly these n bytes and
\* leaves the cursor at 10 + n + 1.
C3_NameAfterRetreat ==
    LET f == Flag(header)
        z == FirstZeroFrom(10)
        n == z - 11
    IN (/\ pc = "comment"
        /\ ~Bit(f, 2) /\ Bit(f, 3)
        /\ z # 0 /\ n < 127
        /\ ~Faulted("lseek_cur") /\ ~Faulted("read_name"))
       => /\ "filename" \in DOMAIN report
          /\ report["filename"] = SubSeq(file, 11, 10 + n)
          /\ span["filename"] = <<10, 10 + n + 1>>
          /\ pos = 10 + n + 1

C3_Witness ==
    /\ pc = "comment"
    /\ Flag(header) = 8
    /\ faults = <<>>
    /\ "filename" \in DOMAIN report
    /\ report["filename"] = <<1, 1, 1>>
    /\ pos = 14

\* C4: an input of at least 12 bytes that does not start with 0x1f 0x8b ends
\* with InvalidMagic after the one read of the fixed header: the cursor stays
\* where that read left it, no optional field is read or reported, no trailer
\* seek or read is issued.
C4_InvalidMagicStops ==
    (Len(file) >= 12 /\ SubSeq(file, 1, 2) # <<31, 139>>)
        => /\ ops <= 1
           /\ order = <<>>
           /\ report = Empty
           /\ pc = "done" =>
                /\ outcome = "InvalidMagic"
                /\ pos = IF faults = <<>> THEN 12 ELSE 0

C4_Witness ==
    /\ pc = "done"
    /\ outcome = "InvalidMagic"
    /\ faults = <<>>
    /\ Len(file) >= 12
    /\ file[1] = 31 /\ file[2] # 139
    /\ pos = 12

\* C5 as stated: an input shorter than 8 bytes ends with SeekOutOfRange.
C5_ShortInputSeekOutOfRange ==
    (Len(file) < 8 /\ pc = "done") => outcome = "SeekOutOfRange"

\* C5 amended: an input shorter than 8 bytes never reaches the trailer seek;
\* the parse ends at the fixed header, with TruncatedInput when the read of
\* the header returns its short count (with InvalidMagic when that read
\* returns -1 and leaves the header zeroed).
C5_ShortInputTruncated ==
    Len(file) < 8
        => /\ pc \in {"start", "magic", "done"}
           /\ ops <= 1
           /\ pc = "done" =>
                outcome = IF Faulted("read_header") THEN "InvalidMagic"
                          ELSE "TruncatedInput"

C5_Witness ==
    /\ Len(file) = 7
    /\ SubSeq(file, 1, 2) = <<31, 139>>
    /\ pc = "done"
    /\ outcome = "TruncatedInput"
    /\ pos = 7
    /\ closes = 1

\* what C6 says of one text field once it is reported
TextFieldRead(field, buf, size) ==
    LET from == span[field][1]
        to == span[field][2]
        k == to - from
        text == report[field]
    IN /\ k >= 1 /\ k <= size
       /\ \A i \in (from + 1)..(to - 1) : file[i] # 0
       /\ file[to] = 0 \/ k = size
       /\ \A i \in DOMAIN buf : i >= 1 /\ i <= size
       /\ text = SubSeq(file, from + 1, IF file[to] = 0 THEN to - 1 ELSE from + size - 1)
       /\ Len(text) <= size - 1
       /\ \A i \in 1..Len(text) : text[i] # 0 /\ buf[i] = text[i]
       /\ buf[Len(text) + 1] = 0

\* C6: the filename and the comment are read byte by byte up to the first
\* zero byte or up to 128 (BUFSIZ) bytes; every byte is stored inside the
\* buffer; the text reported is the run of non-zero bytes read, cut to 127
\* (BUFSIZ - 1) bytes, without the terminator, and a zero byte follows it in
\* the buffer also when the field was cut at the maximum.
C6_BoundedTerminatedText ==
    /\ pc \in {"name_loop", "comment"} => len <= NameSize
    /\ pc = "name_loop" => Len(filename) = len
    /\ pc \in {"comment_loop", "hcrc"} /\ Bit(Flag(header), 4) => len <= BUFSIZ
    /\ pc = "comment_loop" => Len(comment) = len
    /\ ("filename" \in DOMAIN report /\ ~Faulted("read_name"))
            => TextFieldRead("filename", filename, NameSize)
    /\ ("comment" \in DOMAIN report /\ ~Faulted("read_comment"))
            => TextFieldRead("comment", comment, BUFSIZ)

C6_Witness ==
    /\ "filename" \in DOMAIN report
    /\ faults = <<>>
    /\ Len(report["filename"]) = NameSize - 1
    /\ span["filename"][2] - span["filename"][1] = NameSize
    /\ file[span["filename"][2]] # 0
    /\ filename[NameSize] = 0

\* C7: the crc32 reported is decoded from the bytes [N-8, N-4) and the size
\* from the bytes [N-4, N) of an input of N bytes, whatever the flag byte,
\* the optional fields and the cursor left by the header stages: both are a
\* function of the last 8 bytes alone (the two reads of the trailer being
\* the ones that deliver it).
C7_TrailerFromLastEight ==
    LET N == Len(file)
    IN /\ pc = "crc" => pos = N - 8
       /\ ("crc32" \in DOMAIN report /\ ~Faulted("read_crc"))
            => report["crc32"] = Dec32(SubSeq(file, N - 7, N - 4))
       /\ ("isize" \in DOMAIN report /\ ~Faulted("read_crc") /\ ~Faulted("read_isize"))
            => report["isize"] = Dec32(SubSeq(file, N - 3, N))

C7_Witness ==
    /\ outcome = "ok"
    /\ faults = <<>>
    /\ Flag(header) = 30
    /\ span["hcrc"][2] # Len(file) - 8
    /\ report["crc32"] = 768
    /\ report["isize"] = 16777216 + 65536

\* C8: when main has returned, the file has been closed exactly once.
C8_ClosedExactlyOnce ==
    pc = "done" => closes = 1

\* C9: once a read or a seek has returned -1, no further read or seek is
\* issued, nothing further is reported, and the parse does not end well.
C9_AbortOnFailure ==
    [][faults # <<>> => (ops' = ops /\ report' = report /\ outcome' # "ok")]_vars

\* C10: when a filename or a comment has been read, the cursor is right
\* after the zero byte that ends it, whatever the length of the field.
C10_CursorAfterTerminator ==
    \A field \in {"filename", "comment"} :
        (field \in DOMAIN report /\ faults = <<>>)
            => span[field][2] = FirstZeroFrom(span[field][1])

====
